---- MODULE Spec2Model ----
(***************************************************************************)
(* Model of conway.svc: the schedule based log sorter                       *)
(* (conway/async_utils/schedule_based_log_sorter.py) as it is driven by     *)
(* the buffering Logger (conway/observability/logger.py).                   *)
(*                                                                          *)
(* Representation.                                                          *)
(*  - A labels dict with its nested "scheduling_context" dicts is a         *)
(*    non-empty sequence of links: link 1 is the labels dict itself, link   *)
(*    i+1 is the "scheduling_context" of link i.  A link is a record with   *)
(*    the fields task, timestamp, thread, source.  None is <<>>.            *)
(*  - A timestamp is the sequence of the characters of its text, so that    *)
(*    parsing (re.match + float) is computed and not assumed.               *)
(*  - A float is the integer number of thousandths it denotes.              *)
(*  - A message is the non-empty sequence of the lines msg.split("\n")      *)
(*    yields (split is a bijection between the two).                        *)
(*  - A sort key is a tagged tree: a "leaf" is a pair of floats, a "node"   *)
(*    a pair (key, leaf); Python's tuple comparison is computed on it,      *)
(*    TypeError included.                                                   *)
(***************************************************************************)
EXTENDS Integers, Sequences, FiniteSets, TLC

\* ------------------------------------------------------------------ bounds
\* longest "scheduling_context" chain of a logged line (links, own one included)
MaxChain == 4
\* number of lines logged over the lifetime of the Logger
MaxRecords == 3
\* number of links (labels dicts, nested ones included) logged over the lifetime
MaxLinks == 5

\* --------------------------------------------------------------- constants
\* TelemetryLabels: the task name of code that runs outside any event loop
NO_EVENT_LOOP == "Not using an event loop"

\* Logger.snapshot_runtime_context formats elapsed time with 3 decimals
FracDigits == 3

None == <<>>

\* ------------------------------------------------------------ input domain
Tasks == {"Task-1", "Task-2", NO_EVENT_LOOP}

\* "2.550 sec" and "11.344 sec": as strings the second sorts first, as
\* numbers the first does (the example of _timestamp_key's documentation)
TS_2_550 == <<"2", ".", "5", "5", "0", " ", "s", "e", "c">>
TS_11_344 == <<"1", "1", ".", "3", "4", "4", " ", "s", "e", "c">>

\* "2.550": a text without its unit, which the regular expression of
\* _timestamp_key does not match
TS_NO_UNIT == <<"2", ".", "5", "5", "0">>

Timestamps == {TS_2_550, TS_11_344, TS_NO_UNIT}

Threads == {"MainThread"}

Sources == {"main:10"}

\* the labels dicts of the batches; the text without unit is carried by
\* labels of Task-1 only
LabelSets ==
    {l \in [task : Tasks, timestamp : Timestamps, thread : Threads, source : Sources] :
        l.timestamp = TS_NO_UNIT => l.task = "Task-1"}

\* all chains of n links
RECURSIVE ChainsOfLen(_)
ChainsOfLen(n) ==
    IF n = 0 THEN {<<>>}
    ELSE {<<l>> \o c : l \in LabelSets, c \in ChainsOfLen(n - 1)}

\* the labels a line may be logged with, by number of links
Chains == [n \in 1..MaxChain |-> ChainsOfLen(n)]

\* the messages the application logs, in the order of its calls of log: the
\* i-th call passes Messages[i]; the second one embeds a newline
Messages ==
    << <<"first">>, <<"second", "second, continued">>, <<"third">>, <<"fourth">> >>

MessageOf(i) == Messages[((i - 1) % Len(Messages)) + 1]

\* the outcome of a call that may raise: a value, or the exception raised
Return(v) == [err |-> "none", val |-> v]

Raise(e) == [err |-> e]

Raised(r) == r.err # "none"

\* ------------------------------------------------------- _timestamp_key
Digits == {"0", "1", "2", "3", "4", "5", "6", "7", "8", "9"}

DigitVal(c) ==
    CASE c = "0" -> 0 [] c = "1" -> 1 [] c = "2" -> 2 [] c = "3" -> 3
      [] c = "4" -> 4 [] c = "5" -> 5 [] c = "6" -> 6 [] c = "7" -> 7
      [] c = "8" -> 8 [] c = "9" -> 9

\* int() of a sequence of digit characters
RECURSIVE DigitsVal(_)
DigitsVal(ds) ==
    IF ds = <<>> THEN 0
    ELSE 10 * DigitsVal(SubSeq(ds, 1, Len(ds) - 1)) + DigitVal(ds[Len(ds)])

RECURSIVE Pow10(_)
Pow10(n) == IF n = 0 THEN 1 ELSE 10 * Pow10(n - 1)

\* the regular expression (\d+.\d+) sec, matched at the start of ts with
\* first digit run 1..i, any character at i+1, second digit run i+2..j and
\* " sec" at j+1..j+4
RegexMatches(ts, i, j) ==
    /\ 1 <= i
    /\ i + 2 <= j
    /\ j + 4 <= Len(ts)
    /\ \A k \in 1..i : ts[k] \in Digits
    /\ ts[i + 1] # "\n"
    /\ \A k \in (i + 2)..j : ts[k] \in Digits
    /\ ts[j + 1] = " " /\ ts[j + 2] = "s" /\ ts[j + 3] = "e" /\ ts[j + 4] = "c"

\* re.match(REGEX, ts): the pair <<i, j>> the backtracking matcher finds first
\* (both \d+ are greedy: the longest first run, then the longest second run),
\* or None
ReMatch(ts) ==
    LET ms == {m \in (1..Len(ts)) \X (1..Len(ts)) : RegexMatches(ts, m[1], m[2])}
    IN  IF ms = {} THEN None
        ELSE CHOOSE m \in ms :
                 \A o \in ms : \/ o[1] < m[1]
                               \/ (o[1] = m[1] /\ o[2] <= m[2])

\* no value: a text with more than FracDigits decimals has no number of
\* thousandths, and the input domain holds none
Unrepresentable == CHOOSE v \in {} : TRUE

\* float(m[1]) in thousandths; ValueError when the matched text is no number
Float(ts, i, j) ==
    LET sep  == ts[i + 1]
        frac == SubSeq(ts, i + 2, j)
    IN  IF sep = "."
        THEN IF Len(frac) <= FracDigits
             THEN Return(DigitsVal(SubSeq(ts, 1, i)) * Pow10(FracDigits)
                             + DigitsVal(frac) * Pow10(FracDigits - Len(frac)))
             ELSE Unrepresentable
        ELSE IF sep \in Digits
             THEN Return(DigitsVal(SubSeq(ts, 1, j)) * Pow10(FracDigits))
             ELSE Raise("ValueError")

\* m = re.match(REGEX, ts); return float(m[1]): m[1] on None raises TypeError
ParseTimestamp(ts) ==
    LET m == ReMatch(ts)
    IN  IF m = None THEN Raise("TypeError") ELSE Float(ts, m[1], m[2])

\* the parse of every text of the input domain, computed once
ParsedTimestamps == [ts \in Timestamps |-> ParseTimestamp(ts)]

\* ScheduleBasedLogSorter._timestamp_key
_timestamp_key(ts) == ParsedTimestamps[ts]

\* ------------------------------------------------- _clean_input_lines
\* the walk of _first_ancestor_with_a_different_task: ancestors is what is
\* above next_labels
RECURSIVE WalkAncestors(_, _)
WalkAncestors(task, ancestors) ==
    IF ancestors = <<>> THEN None
    ELSE IF Head(ancestors).task # task THEN ancestors
    ELSE WalkAncestors(task, Tail(ancestors))

\* faulty variant: only the direct parent is looked at, same-task ancestors are not
\* walked past
_first_ancestor_parent_only(some_labels) ==
    IF Len(some_labels) > 1 /\ some_labels[2].task # some_labels[1].task
    THEN Tail(some_labels)
    ELSE None

_first_ancestor_with_a_different_task(some_labels) ==
    WalkAncestors(some_labels[1].task, Tail(some_labels))

RECURSIVE _clean_labels(_)

\* faulty variant: the parent is the first ancestor of another task, not cleaned itself
_clean_labels_parent_not_cleaned(raw_labels) ==
    IF Len(raw_labels) = 1 THEN raw_labels
    ELSE LET first_candidate_ancestor == _first_ancestor_with_a_different_task(raw_labels)
         IN  <<raw_labels[1]>> \o first_candidate_ancestor

\* faulty variant: a parent of the same task is skipped, but only one level of it
_clean_labels_skip_one_level(raw_labels) ==
    IF Len(raw_labels) = 1 THEN raw_labels
    ELSE IF raw_labels[2].task # raw_labels[1].task
         THEN <<raw_labels[1]>> \o _clean_labels(Tail(raw_labels))
         ELSE IF Len(raw_labels) = 2 THEN <<raw_labels[1]>>
              ELSE <<raw_labels[1]>> \o _clean_labels(SubSeq(raw_labels, 3, Len(raw_labels)))

_clean_labels(raw_labels) ==
    IF Len(raw_labels) = 1 THEN raw_labels
    ELSE LET cleaned_labels == <<raw_labels[1]>>
             first_candidate_ancestor == _first_ancestor_with_a_different_task(raw_labels)
         IN  IF first_candidate_ancestor = None THEN cleaned_labels
             ELSE cleaned_labels \o _clean_labels(first_candidate_ancestor)

_clean_input_lines(lines) ==
    [i \in 1..Len(lines) |->
        [message |-> lines[i].message, labels |-> _clean_labels(lines[i].labels)]]

\* ------------------------------------------------ _extract_task_metadata
\* result_dict is a function from the tasks seen so far; task_ancestors is a
\* set (the code builds list(set(...)) and only ever reads its length)
RECURSIVE _extract_recursively(_, _)
_extract_recursively(labels, result_dict) ==
    LET task      == labels[1].task
        timestamp == labels[1].timestamp
        d1 == IF task \in DOMAIN result_dict THEN result_dict
              ELSE result_dict @@ (task :> [timestamp_list |-> <<>>, task_ancestors |-> {}])
        d2 == [d1 EXCEPT ![task].timestamp_list = Append(@, timestamp)]
    IN  IF Len(labels) = 1 THEN d2
        ELSE LET parent_labels == Tail(labels)
                 d3            == _extract_recursively(parent_labels, d2)
                 parent_task   == parent_labels[1].task
                 parent_ancestors == d3[parent_task].task_ancestors
                 ancestors_so_far == d3[task].task_ancestors
                 ancestors == {parent_task} \cup parent_ancestors \cup ancestors_so_far
             IN  [d3 EXCEPT ![task].task_ancestors = ancestors]

\* for datum in self.cleaned_lines: _extract_recursively(labels)
RECURSIVE ExtractAll(_, _)
ExtractAll(lines, result_dict) ==
    IF lines = <<>> THEN result_dict
    ELSE ExtractAll(Tail(lines), _extract_recursively(Head(lines).labels, result_dict))

SeqToSet(s) == {s[i] : i \in DOMAIN s}

\* sorted(list(set(ts_l)), key=_timestamp_key): texts of equal value come in
\* the order the set yields them, which the code does not control
\* the code point of a character of a timestamp text
Ord(c) ==
    IF c \in Digits THEN 48 + DigitVal(c)
    ELSE IF c = " " THEN 32
    ELSE IF c = "." THEN 46
    ELSE 97

\* Python's < of two strings
RECURSIVE StrLess(_, _)
StrLess(a, b) ==
    IF b = <<>> THEN FALSE
    ELSE IF a = <<>> THEN TRUE
    ELSE IF Ord(Head(a)) # Ord(Head(b)) THEN Ord(Head(a)) < Ord(Head(b))
    ELSE StrLess(Tail(a), Tail(b))

RECURSIVE SortedTimestamps(_)

\* faulty variant: sorted(ts_l) without the key, the order of the texts
SortedTimestamps_as_strings(S) ==
    IF S = {} THEN <<>>
    ELSE LET m == CHOOSE x \in S : \A y \in S : ~StrLess(y, x)
         IN  <<m>> \o SortedTimestamps(S \ {m})

SortedTimestamps(S) ==
    IF S = {} THEN <<>>
    ELSE LET m == CHOOSE x \in S :
                      \A y \in S : _timestamp_key(x).val <= _timestamp_key(y).val
         IN  <<m>> \o SortedTimestamps(S \ {m})

\* the exception _extract_task_metadata raises, "none" if it returns
ExtractError(result_dict) ==
    LET bad == {_timestamp_key(ts).err :
                    ts \in UNION {SeqToSet(result_dict[t].timestamp_list) : t \in DOMAIN result_dict}}
                \ {"none"}
    IN  IF bad = {} THEN "none" ELSE CHOOSE e \in bad : TRUE

_extract_task_metadata(cleaned) ==
    LET result_dict == ExtractAll(cleaned, <<>>)
    IN  IF ExtractError(result_dict) # "none" THEN Raise(ExtractError(result_dict))
        ELSE Return([task \in DOMAIN result_dict |->
                        [timestamp_list |->
                             SortedTimestamps(SeqToSet(result_dict[task].timestamp_list)),
                         task_ancestors |-> result_dict[task].task_ancestors]])

\* ---------------------------------------------------------- _log_line_key
Leaf(a, b) == [kind |-> "leaf", fst |-> a, snd |-> b]

Node(k, l) == [kind |-> "node", fst |-> k, snd |-> l]

\* faulty variant: the task outside any event loop is keyed like every other task
_labels_key_no_sentinel(labels, metadata_dict) ==
    LET task          == labels[1].task
        timestamp     == labels[1].timestamp
        min_timestamp == metadata_dict[task].timestamp_list[1]
    IN  Leaf(_timestamp_key(min_timestamp).val, _timestamp_key(timestamp).val)

\* faulty variant: the first timestamp of the task stands in both places of the pair
_labels_key_first_only(labels, metadata_dict) ==
    LET task          == labels[1].task
        timestamp     == labels[1].timestamp
        min_timestamp == IF task # NO_EVENT_LOOP
                         THEN metadata_dict[task].timestamp_list[1]
                         ELSE timestamp
    IN  Leaf(_timestamp_key(min_timestamp).val, _timestamp_key(min_timestamp).val)

_labels_key(labels, metadata_dict) ==
    LET task          == labels[1].task
        timestamp     == labels[1].timestamp
        min_timestamp == IF task # NO_EVENT_LOOP
                         THEN metadata_dict[task].timestamp_list[1]
                         ELSE timestamp
    IN  Leaf(_timestamp_key(min_timestamp).val, _timestamp_key(timestamp).val)

RECURSIVE _hierarchical_key(_, _)

\* faulty variant: the pair is (child, parent), the own Label Set takes
\* precedence over the parent
_hierarchical_key_child_first(labels, metadata_dict) ==
    IF Len(labels) = 1 THEN _labels_key(labels, metadata_dict)
    ELSE LET parent_labels == Tail(labels)
             parent_key    == _hierarchical_key(parent_labels, metadata_dict)
             child_key     == _labels_key(labels, metadata_dict)
         IN  Node(child_key, parent_key)

_hierarchical_key(labels, metadata_dict) ==
    IF Len(labels) = 1 THEN _labels_key(labels, metadata_dict)
    ELSE LET parent_labels == Tail(labels)
             parent_key    == _hierarchical_key(parent_labels, metadata_dict)
             child_key     == _labels_key(labels, metadata_dict)
         IN  Node(parent_key, child_key)

\* the loop follows a_key[0] while it is a tuple: the [0] of a leaf is a float
RECURSIVE _dimension_of_key(_)
_dimension_of_key(a_key) ==
    IF a_key.kind = "leaf" THEN 1 ELSE 1 + _dimension_of_key(a_key.fst)

Max(S) == CHOOSE x \in S : \A y \in S : y <= x

max_nb_ancestors(metadata_dict) ==
    Max({Cardinality(metadata_dict[task].task_ancestors) : task \in DOMAIN metadata_dict})

\* for idx in range(padding_needed): key = (key, (0,0)); an empty range when
\* padding_needed <= 0
RECURSIVE Pad(_, _)

\* the key with the filler pair put in front of its outermost pair
RECURSIVE WithFillerInFront(_)
WithFillerInFront(key) ==
    IF key.kind = "leaf" THEN [kind |-> "node", fst |-> [kind |-> "leaf", fst |-> 0, snd |-> 0], snd |-> key]
    ELSE [kind |-> "node", fst |-> WithFillerInFront(key.fst), snd |-> key.snd]

\* faulty variant: the filler pairs are the most significant part of the key
Pad_in_front(key, padding_needed) ==
    IF padding_needed <= 0 THEN key
    ELSE Pad(WithFillerInFront(key), padding_needed - 1)

Pad(key, padding_needed) ==
    IF padding_needed <= 0 THEN key
    ELSE Pad(Node(key, Leaf(0, 0)), padding_needed - 1)

\* faulty variant: padding_needed without its "1 +"
_log_line_key_no_plus_one(log_line, metadata_dict) ==
    LET unpadded_key   == _hierarchical_key(log_line.labels, metadata_dict)
        padding_needed == max_nb_ancestors(metadata_dict) - _dimension_of_key(unpadded_key)
    IN  Pad(unpadded_key, padding_needed)

_log_line_key(log_line, metadata_dict) ==
    LET unpadded_key   == _hierarchical_key(log_line.labels, metadata_dict)
        padding_needed == 1 + max_nb_ancestors(metadata_dict) - _dimension_of_key(unpadded_key)
    IN  Pad(unpadded_key, padding_needed)

\* ------------------------------------------------------------------ sorted
\* Python's comparison of two keys: "lt", "eq", "gt", or "TypeError" when a
\* float meets a tuple.  Tuples compare by their first differing item.
RECURSIVE PyCmp(_, _)

\* faulty variant: a float compared with a tuple is smaller, not an error
PyCmp_float_before_tuple(x, y) ==
    IF x.kind = "leaf" /\ y.kind = "leaf"
    THEN IF x.fst < y.fst THEN "lt"
         ELSE IF x.fst > y.fst THEN "gt"
         ELSE IF x.snd < y.snd THEN "lt"
         ELSE IF x.snd > y.snd THEN "gt"
         ELSE "eq"
    ELSE IF x.kind = "node" /\ y.kind = "node"
    THEN LET c == PyCmp(x.fst, y.fst)
         IN  IF c = "eq" THEN PyCmp(x.snd, y.snd) ELSE c
    ELSE IF x.kind = "leaf" THEN "lt" ELSE "gt"

PyCmp(x, y) ==
    IF x.kind = "leaf" /\ y.kind = "leaf"
    THEN IF x.fst < y.fst THEN "lt"
         ELSE IF x.fst > y.fst THEN "gt"
         ELSE IF x.snd < y.snd THEN "lt"
         ELSE IF x.snd > y.snd THEN "gt"
         ELSE "eq"
    ELSE IF x.kind = "node" /\ y.kind = "node"
    THEN LET c == PyCmp(x.fst, y.fst)
         IN  IF c = "eq" THEN PyCmp(x.snd, y.snd) ELSE c
    ELSE "TypeError"

\* one insertion of the stable sort: item i goes after the last item of the
\* sorted prefix s that it is not less than
RECURSIVE Insert(_, _, _)

\* faulty variant: an item also moves before the items it is equal to
Insert_before_equal(keys, s, i) ==
    IF s = <<>> THEN Return(<<i>>)
    ELSE LET last == s[Len(s)]
             c    == PyCmp(keys[i], keys[last])
         IN  IF c = "TypeError" THEN Raise("TypeError")
             ELSE IF c \in {"lt", "eq"}
                  THEN LET r == Insert(keys, SubSeq(s, 1, Len(s) - 1), i)
                       IN  IF Raised(r) THEN r ELSE Return(Append(r.val, last))
                  ELSE Return(Append(s, i))

Insert(keys, s, i) ==
    IF s = <<>> THEN Return(<<i>>)
    ELSE LET last == s[Len(s)]
             c    == PyCmp(keys[i], keys[last])
         IN  IF c = "TypeError" THEN Raise("TypeError")
             ELSE IF c = "lt"
                  THEN LET r == Insert(keys, SubSeq(s, 1, Len(s) - 1), i)
                       IN  IF Raised(r) THEN r ELSE Return(Append(r.val, last))
                  ELSE Return(Append(s, i))

\* sorted(cleaned_lines, key=...) as the order of the indices of cleaned_lines;
\* the keys are all computed first, the < of two keys may raise
RECURSIVE SortedIdx(_, _)
SortedIdx(keys, n) ==
    IF n = 0 THEN Return(<<>>)
    ELSE LET p == SortedIdx(keys, n - 1)
         IN  IF Raised(p) THEN p ELSE Insert(keys, p.val, n)

\* ------------------------------------------------------------- rendering
\* the text "<tabs>[<ts> <task> - <thread>@<source>]", kept as its parts
_format_labels(labels, metadata_dict) ==
    LET task == labels[1].task
        padding_needed == Cardinality(metadata_dict[task].task_ancestors)
    IN  [tabs      |-> padding_needed,
         timestamp |-> labels[1].timestamp,
         task      |-> task,
         thread    |-> labels[1].thread,
         source    |-> labels[1].source]

RECURSIVE _format_ancestors(_, _)
_format_ancestors(labels, metadata_dict) ==
    IF Len(labels) = 1 THEN <<>>
    ELSE LET parent_labels == Tail(labels)
         IN  Append(_format_ancestors(parent_labels, metadata_dict),
                    _format_labels(parent_labels, metadata_dict))

\* an ancestor's line: the prefix alone
HeaderLine(txt) == [kind |-> "header", prefix |-> txt]

\* f"{prefix}\t{msg_lines_l[0]}"
OwnLine(prefix, first_line) == [kind |-> "line", prefix |-> prefix, text |-> first_line]

\* number of characters of "[<ts> <task> - <thread>@<source>]"
PrefixWidth(prefix) ==
    Len(prefix.timestamp) + Len(prefix.task) + Len(prefix.thread) + Len(prefix.source) + 7

\* f"{indentation}{msg_lines_l[idx]}": the indentation is the prefix and its
\* tab with every character but the tabs replaced by a space
ContinuationLine(prefix, line) ==
    [kind |-> "continuation", tabs |-> prefix.tabs, spaces |-> PrefixWidth(prefix),
     trailing_tabs |-> 1, text |-> line]

\* the headers of txts that are not in already_seen, in order
RECURSIVE NewHeaders(_, _)

\* faulty variant: already_seen is not consulted
NewHeaders_no_dedupe(txts, already_seen) == txts

NewHeaders(txts, already_seen) ==
    IF txts = <<>> THEN <<>>
    ELSE IF Head(txts) \in already_seen THEN NewHeaders(Tail(txts), already_seen)
    ELSE <<Head(txts)>> \o NewHeaders(Tail(txts), already_seen \cup {Head(txts)})

\* faulty variant: the prefix is applied to the first line of the message
\* and the other lines are left out
DatumLines_first_line_only(datum, metadata_dict, already_seen) ==
    LET headers == NewHeaders(_format_ancestors(datum.labels, metadata_dict), already_seen)
        prefix  == _format_labels(datum.labels, metadata_dict)
        msg_lines_l == datum.message
    IN  [i \in 1..Len(headers) |-> HeaderLine(headers[i])]
        \o <<OwnLine(prefix, msg_lines_l[1])>>

\* the lines one datum adds to result_l
DatumLines(datum, metadata_dict, already_seen) ==
    LET headers == NewHeaders(_format_ancestors(datum.labels, metadata_dict), already_seen)
        prefix  == _format_labels(datum.labels, metadata_dict)
        msg_lines_l == datum.message
    IN  [i \in 1..Len(headers) |-> HeaderLine(headers[i])]
        \o <<OwnLine(prefix, msg_lines_l[1])>>
        \o [i \in 1..(Len(msg_lines_l) - 1) |-> ContinuationLine(prefix, msg_lines_l[i + 1])]

\* the loop of sort() over sorted_data_l
RECURSIVE RenderAll(_, _, _)
RenderAll(sorted_data_l, metadata_dict, already_seen) ==
    IF sorted_data_l = <<>> THEN <<>>
    ELSE LET datum == Head(sorted_data_l)
             txts  == SeqToSet(_format_ancestors(datum.labels, metadata_dict))
         IN  DatumLines(datum, metadata_dict, already_seen)
             \o RenderAll(Tail(sorted_data_l), metadata_dict, already_seen \cup txts)

\* the keys sorted() computes, one per cleaned line
KeysOf(cleaned, metadata_dict) ==
    [i \in 1..Len(cleaned) |-> _log_line_key(cleaned[i], metadata_dict)]

\* sorted_data_l as the order of the indices of cleaned_lines, or the exception
sorted_order(cleaned, metadata_dict) ==
    SortedIdx(KeysOf(cleaned, metadata_dict), Len(cleaned))

\* faulty variant: max_nb_ancestors is computed once, before sorted(), and
\* max() of no task raises
sort_max_computed_first(cleaned, metadata_dict) ==
    IF DOMAIN metadata_dict = {} THEN Raise("ValueError")
    ELSE LET order == sorted_order(cleaned, metadata_dict)
         IN  IF Raised(order) THEN Raise("ValueError")
             ELSE Return(RenderAll([i \in 1..Len(order.val) |-> cleaned[order.val[i]]],
                                   metadata_dict, {}))

\* ScheduleBasedLogSorter.sort: any exception of sorted() becomes a ValueError
sort(cleaned, metadata_dict) ==
    LET order == sorted_order(cleaned, metadata_dict)
    IN  IF Raised(order) THEN Raise("ValueError")
        ELSE Return(RenderAll([i \in 1..Len(order.val) |-> cleaned[order.val[i]]],
                              metadata_dict, {}))

\* ------------------------------------------------------------------- state
VARIABLES
    buffer,         \* Logger.buffer: the lines logged since the last flush
    pc,             \* where flush() is: "idle", "constructed", "sorted", "printed"
    input_lines,    \* ScheduleBasedLogSorter.input_lines
    cleaned_lines,  \* ScheduleBasedLogSorter.cleaned_lines
    metadata_dict,  \* ScheduleBasedLogSorter.metadata_dict
    sorted_lines,   \* flush's local: what sorter.sort() returned
    error,          \* the exception the last step raised to its caller, or "none"
    stdout          \* the lines the last step printed

\* the variables of the logger and of its sorter
logger_vars == <<buffer, pc, input_lines, cleaned_lines, metadata_dict, sorted_lines, error, stdout>>

VARIABLES
    token_list,     \* _StateMachine.token_list: command.split(" ")
    token_idx,      \* _StateMachine.token_idx
    state,          \* _StateMachine.state: the state object and its attributes
    args,           \* _StateMachine.args
    outcome         \* None while run() loops, then what get_argument_list returns or raises

parser_vars == <<token_list, token_idx, state, args, outcome>>

VARIABLES
    result_l,       \* UsheringTo.result_l: the caller's list
    to_do,          \* UsheringTo.to_do
    usher_pc,       \* where the `async with` block is: "created", "body", "aexit", "exited", "raised"
    usher_error,    \* the exception the last `+=` or __aexit__ raised, or "none"
    coro_state,     \* where each coroutine is: "created", "pending", "started", "returned", "raised"
    done,           \* as_completed's queue `done`: the finished tasks, in order of completion
    nb_collected    \* how many items of `done` __aexit__ has taken

usher_vars == <<result_l, to_do, usher_pc, usher_error, coro_state, done, nb_collected>>

vars == <<logger_vars, parser_vars, usher_vars>>

\* number of labels dicts held by the buffer
RECURSIVE NbLinks(_)
NbLinks(lines) ==
    IF lines = <<>> THEN 0 ELSE Len(Head(lines).labels) + NbLinks(Tail(lines))

NoSorter ==
    /\ input_lines' = <<>>
    /\ cleaned_lines' = <<>>
    /\ metadata_dict' = <<>>
    /\ sorted_lines' = <<>>

\* no command is being parsed
NoParser ==
    /\ token_list = <<>>
    /\ token_idx = 0
    /\ state = [kind |-> "_UsualState"]
    /\ args = <<>>
    /\ outcome = None

\* no `async with UsheringTo(...)` block is in use
NoUsher ==
    /\ result_l = <<>>
    /\ to_do = <<>>
    /\ usher_pc = "created"
    /\ usher_error = "none"
    /\ coro_state = <<>>
    /\ done = <<>>
    /\ nb_collected = 0

Init ==
    /\ buffer = <<>>
    /\ pc = "idle"
    /\ input_lines = <<>>
    /\ cleaned_lines = <<>>
    /\ metadata_dict = <<>>
    /\ sorted_lines = <<>>
    /\ error = "none"
    /\ stdout = <<>>
    /\ NoParser
    /\ NoUsher

\* Logger.log -> Logger._tee with schedule_based_logging: the entry is buffered
Log(labels) ==
    /\ pc = "idle"
    /\ UNCHANGED <<parser_vars, usher_vars>>
    /\ Len(buffer) < MaxRecords
    /\ Len(labels) <= MaxChain
    /\ NbLinks(buffer) + Len(labels) <= MaxLinks
    /\ buffer' = Append(buffer, [message |-> MessageOf(Len(buffer) + 1), labels |-> labels])
    /\ error' = "none"
    /\ stdout' = <<>>
    /\ UNCHANGED <<pc, input_lines, cleaned_lines, metadata_dict, sorted_lines>>

\* faulty variant: an exception of the constructor is swallowed and the
\* batch dropped
FlushConstruct_swallowing ==
    /\ pc = "idle"
    /\ UNCHANGED <<parser_vars, usher_vars>>
    /\ stdout' = <<>>
    /\ LET cleaned  == _clean_input_lines(buffer)
           metadata == _extract_task_metadata(cleaned)
       IN  IF Raised(metadata)
           THEN /\ error' = "none"
                /\ buffer' = <<>>
                /\ NoSorter
                /\ UNCHANGED pc
           ELSE /\ input_lines' = buffer
                /\ cleaned_lines' = cleaned
                /\ metadata_dict' = metadata.val
                /\ pc' = "constructed"
                /\ error' = "none"
                /\ UNCHANGED <<buffer, sorted_lines>>

\* Logger.flush, first statement: sorter = ScheduleBasedLogSorter(self.buffer)
FlushConstruct ==
    /\ pc = "idle"
    /\ UNCHANGED <<parser_vars, usher_vars>>
    /\ stdout' = <<>>
    /\ LET cleaned  == _clean_input_lines(buffer)
           metadata == _extract_task_metadata(cleaned)
       IN  IF Raised(metadata)
           THEN /\ error' = metadata.err
                /\ NoSorter
                /\ UNCHANGED <<buffer, pc>>
           ELSE /\ input_lines' = buffer
                /\ cleaned_lines' = cleaned
                /\ metadata_dict' = metadata.val
                /\ pc' = "constructed"
                /\ error' = "none"
                /\ UNCHANGED <<buffer, sorted_lines>>

\* faulty variant: sort() sorts self.cleaned_lines in place
FlushSort_in_place ==
    /\ pc = "constructed"
    /\ UNCHANGED <<parser_vars, usher_vars>>
    /\ LET r     == sort(cleaned_lines, metadata_dict)
           order == sorted_order(cleaned_lines, metadata_dict)
       IN  IF Raised(r)
           THEN /\ error' = r.err
                /\ pc' = "idle"
                /\ NoSorter
                /\ UNCHANGED <<buffer, stdout>>
           ELSE /\ sorted_lines' = r.val
                /\ cleaned_lines' = [i \in 1..Len(order.val) |-> cleaned_lines[order.val[i]]]
                /\ pc' = "sorted"
                /\ UNCHANGED <<buffer, input_lines, metadata_dict, error, stdout>>

\* Logger.flush, second statement: sorted_lines = sorter.sort()
FlushSort ==
    /\ pc = "constructed"
    /\ UNCHANGED <<parser_vars, usher_vars>>
    /\ LET r == sort(cleaned_lines, metadata_dict)
       IN  IF Raised(r)
           THEN /\ error' = r.err
                /\ pc' = "idle"
                /\ NoSorter
                /\ UNCHANGED <<buffer, stdout>>
           ELSE /\ sorted_lines' = r.val
                /\ pc' = "sorted"
                /\ UNCHANGED <<buffer, input_lines, cleaned_lines, metadata_dict, error, stdout>>

\* Logger.flush: print("\n"), then print every line
FlushPrint ==
    /\ pc = "sorted"
    /\ UNCHANGED <<parser_vars, usher_vars>>
    /\ stdout' = <<[kind |-> "blank"]>> \o sorted_lines
    /\ pc' = "printed"
    /\ UNCHANGED <<buffer, input_lines, cleaned_lines, metadata_dict, sorted_lines, error>>

\* faulty variant: flush returns without emptying the buffer
FlushClear_keeps_buffer ==
    /\ pc = "printed"
    /\ UNCHANGED <<parser_vars, usher_vars>>
    /\ pc' = "idle"
    /\ stdout' = <<>>
    /\ NoSorter
    /\ UNCHANGED <<buffer, error>>

\* Logger.flush, last statement: self.buffer = []; flush returns and its
\* locals (the sorter, sorted_lines) are gone
FlushClear ==
    /\ pc = "printed"
    /\ UNCHANGED <<parser_vars, usher_vars>>
    /\ buffer' = <<>>
    /\ pc' = "idle"
    /\ stdout' = <<>>
    /\ NoSorter
    /\ UNCHANGED error

\* the application logs one line, with labels of any shape within the bounds
LogLine ==
    \E n \in 1..MaxChain :
        /\ pc = "idle"
        /\ Len(buffer) < MaxRecords
        /\ NbLinks(buffer) + n <= MaxLinks
        /\ \E labels \in Chains[n] : Log(labels)

Next ==
    \/ LogLine
    \/ FlushConstruct
    \/ FlushSort
    \/ FlushPrint
    \/ FlushClear

Spec == Init /\ [][Next]_vars

\* ============================================================ CommandParser
\* the longest command parsed
MaxCommand == 7

\* the characters of the commands parsed: two letters, the two quotes, the
\* space and a tab
CommandChars == {"a", "b", "\"", "'", " ", "\t"}

Commands == UNION {[1..n -> CommandChars] : n \in 0..MaxCommand}

SPACE == " "

SUBSTRING_DELIMETERS == {"'", "\""}

\* the characters str.strip() removes
Whitespace == {" ", "\t"}

\* command.split(SPACE): the pieces between the spaces, empty ones included
RECURSIVE Split(_)
Split(command) ==
    LET spaces == {i \in DOMAIN command : command[i] = SPACE}
    IN  IF spaces = {} THEN <<command>>
        ELSE LET k == CHOOSE i \in spaces : \A j \in spaces : i <= j
             IN  <<SubSeq(command, 1, k - 1)>> \o Split(SubSeq(command, k + 1, Len(command)))

\* str.strip()
RECURSIVE Strip(_)
Strip(token) ==
    IF token = <<>> THEN token
    ELSE IF Head(token) \in Whitespace THEN Strip(Tail(token))
    ELSE IF token[Len(token)] \in Whitespace THEN Strip(SubSeq(token, 1, Len(token) - 1))
    ELSE token

\* the state objects; next_token is written before it is read in every
\* advance() and is not kept
UsualState == [kind |-> "_UsualState"]

CompositeArgumentState(argument_so_far, delimeter) ==
    [kind |-> "CompositeArgumentState", argument_so_far |-> argument_so_far,
     delimeter |-> delimeter]

\* argument_so_far += " " + token
AddToken(argument_so_far, token) == argument_so_far \o <<SPACE>> \o token

\* _StateMachine.__init__ on the tokens of a command
InitParser ==
    /\ token_list \in {Split(command) : command \in Commands}
    /\ token_idx = 0
    /\ state = UsualState
    /\ args = <<>>
    /\ outcome = None
    /\ buffer = <<>>
    /\ pc = "idle"
    /\ input_lines = <<>>
    /\ cleaned_lines = <<>>
    /\ metadata_dict = <<>>
    /\ sorted_lines = <<>>
    /\ error = "none"
    /\ stdout = <<>>
    /\ NoUsher

\* _UsualState.start_composite: M.state = M.CompositeArgumentState(M, token).
\* The constructor closes a composite of one token itself (close_composite
\* appends the argument and sets M.state to a new _UsualState), and then the
\* assignment of start_composite puts the constructed object in M.state.
\* next_token[-1] of an empty next_token raises IndexError.
start_composite(initial_token) ==
    LET next_token == Tail(initial_token)
        delimeter  == Head(initial_token)
    IN  IF next_token = <<>>
        THEN /\ outcome' = Raise("IndexError")
             /\ UNCHANGED <<state, args>>
        ELSE IF next_token[Len(next_token)] = delimeter
        THEN LET to_be_added == SubSeq(next_token, 1, Len(next_token) - 1)
             IN  /\ args' = Append(args, to_be_added)
                 /\ state' = CompositeArgumentState(to_be_added, delimeter)
                 /\ UNCHANGED outcome
        ELSE /\ state' = CompositeArgumentState(next_token, delimeter)
             /\ UNCHANGED <<args, outcome>>

\* one turn of the loop of run() in the usual state: _UsualState.advance
UsualAdvance ==
    /\ outcome = None
    /\ token_idx < Len(token_list)
    /\ state.kind = "_UsualState"
    /\ token_idx' = token_idx + 1
    /\ LET next_token == token_list[token_idx + 1]
       IN  IF Len(Strip(next_token)) = 0
           THEN UNCHANGED <<state, args, outcome>>
           ELSE IF next_token[1] \in SUBSTRING_DELIMETERS
           THEN start_composite(next_token)
           ELSE /\ args' = Append(args, next_token)
                /\ UNCHANGED <<state, outcome>>
    /\ UNCHANGED <<token_list, logger_vars, usher_vars>>

\* one turn of the loop of run() in a composite: CompositeArgumentState.advance
CompositeAdvance ==
    /\ outcome = None
    /\ token_idx < Len(token_list)
    /\ state.kind = "CompositeArgumentState"
    /\ token_idx' = token_idx + 1
    /\ LET next_token == token_list[token_idx + 1]
       IN  IF Len(Strip(next_token)) = 0
           THEN UNCHANGED <<state, args>>
           ELSE IF next_token[Len(next_token)] = state.delimeter
           THEN /\ args' = Append(args, AddToken(state.argument_so_far,
                                                 SubSeq(next_token, 1, Len(next_token) - 1)))
                /\ state' = UsualState
           ELSE /\ state' = CompositeArgumentState(
                                AddToken(state.argument_so_far, next_token), state.delimeter)
                /\ UNCHANGED args
    /\ UNCHANGED <<token_list, outcome, logger_vars, usher_vars>>

\* the loop of run() ends and get_argument_list returns machine.args
ParserReturn ==
    /\ outcome = None
    /\ token_idx >= Len(token_list)
    /\ outcome' = Return(args)
    /\ UNCHANGED <<token_list, token_idx, state, args, logger_vars, usher_vars>>

NextParser ==
    \/ UsualAdvance
    \/ CompositeAdvance
    \/ ParserReturn

SpecParser == InitParser /\ [][NextParser]_vars

\* =============================================================== UsheringTo
\* the most `+=` of coroutines in one block
MaxToDo == 3

\* the coroutine objects the body can usher (the A, B, C of the docstring),
\* and an object that is not a coroutine
Coroutines == {"A", "B", "C"}

NonCoroutines == {"a function"}

\* asyncio.iscoroutine
iscoroutine(coro) == coro \in Coroutines

\* what a coroutine returns: its name
ResultOf(coro) == coro

\* the lists the caller can pass as result_l
InitialResults == {<<>>, <<"earlier">>}

\* the set of tasks of as_completed: one per element of set(self.to_do)
todo == {to_do[i] : i \in DOMAIN to_do}

\* UsheringTo.__init__; to_do is set by __aenter__
InitUsher ==
    /\ result_l \in InitialResults
    /\ to_do = <<>>
    /\ usher_pc = "created"
    /\ usher_error = "none"
    /\ coro_state = [c \in Coroutines |-> "created"]
    /\ done = <<>>
    /\ nb_collected = 0
    /\ buffer = <<>>
    /\ pc = "idle"
    /\ input_lines = <<>>
    /\ cleaned_lines = <<>>
    /\ metadata_dict = <<>>
    /\ sorted_lines = <<>>
    /\ error = "none"
    /\ stdout = <<>>
    /\ NoParser

\* UsheringTo.__aenter__
AEnter ==
    /\ usher_pc = "created"
    /\ to_do' = <<>>
    /\ usher_pc' = "body"
    /\ UNCHANGED <<result_l, usher_error, coro_state, done, nb_collected>>
    /\ UNCHANGED <<logger_vars, parser_vars>>

\* UsheringTo.__iadd__, called by `usher += coro` in the body of the block
IAdd(coro) ==
    /\ usher_pc = "body"
    /\ Len(to_do) < MaxToDo
    /\ IF ~iscoroutine(coro)
       THEN /\ usher_error' = "ValueError"
            /\ UNCHANGED to_do
       ELSE /\ to_do' = Append(to_do, coro)
            /\ UNCHANGED usher_error
    /\ UNCHANGED <<result_l, usher_pc, coro_state, done, nb_collected>>
    /\ UNCHANGED <<logger_vars, parser_vars>>

\* the body ushers a coroutine or something else
Usher == \E coro \in Coroutines \cup NonCoroutines : IAdd(coro)

\* the body ends (or an exception leaves it: __aexit__ does not look at its
\* arguments): __aexit__ up to its first await. as_completed makes a task
\* of every coroutine of set(self.to_do); without any, __aexit__ returns.
AExitStart ==
    /\ usher_pc = "body"
    /\ coro_state' = [c \in Coroutines |-> IF c \in todo THEN "pending" ELSE coro_state[c]]
    /\ usher_pc' = IF todo = {} THEN "exited" ELSE "aexit"
    /\ UNCHANGED <<result_l, to_do, usher_error, done, nb_collected>>
    /\ UNCHANGED <<logger_vars, parser_vars>>

\* the event loop runs a task up to its first await
CoroStart(c) ==
    /\ coro_state[c] = "pending"
    /\ coro_state' = [coro_state EXCEPT ![c] = "started"]
    /\ UNCHANGED <<result_l, to_do, usher_pc, usher_error, done, nb_collected>>
    /\ UNCHANGED <<logger_vars, parser_vars>>

\* the event loop runs a task to its end: it returns or raises, and
\* _on_completion puts it in the queue `done`
CoroFinish(c) ==
    /\ coro_state[c] = "started"
    /\ \E how \in {"returned", "raised"} : coro_state' = [coro_state EXCEPT ![c] = how]
    /\ done' = Append(done, c)
    /\ UNCHANGED <<result_l, to_do, usher_pc, usher_error, nb_collected>>
    /\ UNCHANGED <<logger_vars, parser_vars>>

\* faulty variant: the results are awaited in the order of to_do
AExitCollect_in_order_of_to_do ==
    /\ usher_pc = "aexit"
    /\ nb_collected < Len(done)
    /\ nb_collected < Len(to_do)
    /\ coro_state[to_do[nb_collected + 1]] \in {"returned", "raised"}
    /\ LET coro == to_do[nb_collected + 1]
       IN  IF coro_state[coro] = "raised"
           THEN /\ usher_pc' = "raised"
                /\ usher_error' = "exception of a coroutine"
                /\ UNCHANGED result_l
           ELSE /\ result_l' = Append(result_l, ResultOf(coro))
                /\ usher_pc' = IF nb_collected + 1 = Cardinality(todo) THEN "exited" ELSE "aexit"
                /\ UNCHANGED usher_error
    /\ nb_collected' = nb_collected + 1
    /\ UNCHANGED <<to_do, coro_state, done>>
    /\ UNCHANGED <<logger_vars, parser_vars>>

\* __aexit__ from one await to the next: `await coro` gets the next finished
\* task of the queue; its exception leaves __aexit__, its result is appended
\* to result_l, and after the last one __aexit__ returns
AExitCollect ==
    /\ usher_pc = "aexit"
    /\ nb_collected < Len(done)
    /\ LET coro == done[nb_collected + 1]
       IN  IF coro_state[coro] = "raised"
           THEN /\ usher_pc' = "raised"
                /\ usher_error' = "exception of a coroutine"
                /\ UNCHANGED result_l
           ELSE /\ result_l' = Append(result_l, ResultOf(coro))
                /\ usher_pc' = IF nb_collected + 1 = Cardinality(todo) THEN "exited" ELSE "aexit"
                /\ UNCHANGED usher_error
    /\ nb_collected' = nb_collected + 1
    /\ UNCHANGED <<to_do, coro_state, done>>
    /\ UNCHANGED <<logger_vars, parser_vars>>

\* the event loop runs one of the tasks
CoroStep == \E c \in Coroutines : CoroStart(c) \/ CoroFinish(c)

NextUsher ==
    \/ AEnter
    \/ Usher
    \/ AExitStart
    \/ CoroStep
    \/ AExitCollect

SpecUsher == InitUsher /\ [][NextUsher]_vars

\* ------------------------------------------------------ claims: vocabulary
\* the sorter of the running flush exists
Constructed == pc \in {"constructed", "sorted", "printed"}

\* the key sort() builds for the i-th cleaned line
KeyOfLine(i) == _log_line_key(cleaned_lines[i], metadata_dict)

\* the tasks of the links of a chain
TasksOf(labels) == {labels[j].task : j \in DOMAIN labels}

\* every timestamp of every labels dict of the lines parses
AllWellFormed(lines) ==
    \A i \in DOMAIN lines : \A j \in DOMAIN lines[i].labels :
        ~Raised(_timestamp_key(lines[i].labels[j].timestamp))

\* ---------------------------------------------------------------- claims
\* C1: after padding, every sort key built for the records of one batch has
\* the same nesting depth, and that depth is 1 + the maximum over the tasks
\* of the batch of the number of their ancestors.
C1_DepthUniformity ==
    (pc = "constructed" /\ cleaned_lines # <<>>) =>
        \A i \in DOMAIN cleaned_lines :
            _dimension_of_key(KeyOfLine(i)) = 1 + max_nb_ancestors(metadata_dict)

\* C2: for every non-empty batch whose timestamps are all well-formed,
\* constructing the sorter and calling sort() raises no error.
C2_SortNeverRaises ==
    (buffer # <<>> /\ AllWellFormed(buffer)) => error = "none"

\* C3: in the cleaned chain of every input record no link has the task of
\* its direct parent.
C3_NoConsecutiveSameTask ==
    Constructed =>
        /\ Len(cleaned_lines) = Len(input_lines)
        /\ \A i \in DOMAIN cleaned_lines :
               \A j \in 1..(Len(cleaned_lines[i].labels) - 1) :
                   cleaned_lines[i].labels[j].task # cleaned_lines[i].labels[j + 1].task

\* C3 witness: a sorter whose input has a line with a run of three links of
\* one task followed by another task
C3_Witness ==
    /\ pc = "constructed"
    /\ \E i \in DOMAIN input_lines :
           LET raw == input_lines[i].labels
           IN  /\ Len(raw) = 4
               /\ raw[1].task = raw[2].task
               /\ raw[2].task = raw[3].task
               /\ raw[3].task # raw[4].task
               /\ Len(cleaned_lines[i].labels) = 2

\* what C4 says the Chain Cleaner keeps of a raw chain: its first link and
\* every link whose task differs from the task of the link right below it
KeptLinks(raw) ==
    LET F[j \in 0..Len(raw)] ==
            IF j = 0 THEN <<>>
            ELSE IF j = 1 \/ raw[j].task # raw[j - 1].task THEN Append(F[j - 1], raw[j])
            ELSE F[j - 1]
    IN  F[Len(raw)]

C5_CleaningIdempotent ==
    Constructed => _clean_input_lines(cleaned_lines) = cleaned_lines

\* C5 witness: a sorter one of whose lines the cleaning shortened by two links
C5_Witness ==
    /\ pc = "constructed"
    /\ \E i \in DOMAIN input_lines :
           /\ Len(input_lines[i].labels) = 4
           /\ Len(cleaned_lines[i].labels) = 2
           /\ input_lines[i].labels[2].task = input_lines[i].labels[3].task

\* C6: in a cleaned chain no task appears more than once, adjacent or not.
C6_NoTaskTwice ==
    Constructed =>
        \A i \in DOMAIN cleaned_lines :
            \A j, k \in DOMAIN cleaned_lines[i].labels :
                j # k => cleaned_lines[i].labels[j].task # cleaned_lines[i].labels[k].task

\* C7: ancestors(t) is exactly the set of the tasks that appear strictly
\* above a Label Set of task t in the cleaned chain of some record.
C7_AncestorsExact ==
    pc = "constructed" =>
        \A t \in DOMAIN metadata_dict :
            metadata_dict[t].task_ancestors =
                {u \in Tasks :
                    \E i \in DOMAIN cleaned_lines :
                        \E j, k \in DOMAIN cleaned_lines[i].labels :
                            /\ j < k
                            /\ cleaned_lines[i].labels[j].task = t
                            /\ cleaned_lines[i].labels[k].task = u}

\* C8: every timestamp_list is in ascending order of the parsed values and
\* holds no entry twice.
C8_TimestampListSorted ==
    pc = "constructed" =>
        \A t \in DOMAIN metadata_dict :
            LET ts_l == metadata_dict[t].timestamp_list
            IN  \A a, b \in DOMAIN ts_l :
                    a < b => /\ _timestamp_key(ts_l[a]).val <= _timestamp_key(ts_l[b]).val
                             /\ ts_l[a] # ts_l[b]

\* the timestamps of the Label Sets of task t in the cleaned chains, in the
\* order the extraction meets them in line i
TimestampsOfTaskIn(t, labels) ==
    LET F[j \in 0..Len(labels)] ==
            IF j = 0 THEN <<>>
            ELSE IF labels[j].task = t THEN Append(F[j - 1], labels[j].timestamp)
            ELSE F[j - 1]
    IN  F[Len(labels)]

\* C8 witness: a task met first at 11.344 sec, then at 2.550 sec, then at
\* 11.344 sec again; its list is 2.550 sec, 11.344 sec
C8_Witness ==
    /\ pc = "constructed"
    /\ \E t \in DOMAIN metadata_dict :
           /\ metadata_dict[t].timestamp_list = <<TS_2_550, TS_11_344>>
           /\ Len(cleaned_lines) = 3
           /\ TimestampsOfTaskIn(t, cleaned_lines[1].labels) = <<TS_11_344>>
           /\ TimestampsOfTaskIn(t, cleaned_lines[2].labels) = <<TS_2_550>>
           /\ TimestampsOfTaskIn(t, cleaned_lines[3].labels) = <<TS_11_344>>

\* the links of the cleaned chains
CleanedLinks ==
    UNION {SeqToSet(cleaned_lines[i].labels) : i \in DOMAIN cleaned_lines}

\* the smallest parsed timestamp of the Label Sets of task t of the batch
FirstOfTask(t) ==
    LET vals == {_timestamp_key(l.timestamp).val : l \in {m \in CleanedLinks : m.task = t}}
    IN  CHOOSE v \in vals : \A w \in vals : v <= w

OutputOrder ==
    LET own == SelectSeq(sorted_lines, LAMBDA line : line.kind = "line")
    IN  [p \in DOMAIN own |->
            CHOOSE i \in DOMAIN cleaned_lines : cleaned_lines[i].message[1] = own[p].text]

\* C10: when sort() succeeds the records' own lines are in non-decreasing
\* order of their padded keys, and records of equal keys are in the order
\* of the input batch.
C10_SortedStable ==
    pc = "sorted" =>
        /\ Len(OutputOrder) = Len(cleaned_lines)
        /\ \A p, q \in DOMAIN OutputOrder :
               p < q =>
                   LET c == PyCmp(KeyOfLine(OutputOrder[p]), KeyOfLine(OutputOrder[q]))
                   IN  /\ c \in {"lt", "eq"}
                       /\ c = "eq" => OutputOrder[p] < OutputOrder[q]

\* C10 witness: three records, the first with the greatest key and the other
\* two with equal keys: the output is second, third, first
C10_Witness ==
    /\ pc = "sorted"
    /\ Len(cleaned_lines) = 3
    /\ OutputOrder = <<2, 3, 1>>
    /\ PyCmp(KeyOfLine(2), KeyOfLine(3)) = "eq"
    /\ PyCmp(KeyOfLine(2), KeyOfLine(1)) = "lt"

\* ------------------------------------------- claims: the order of the output
\* the task of the i-th record of the batch
TaskOfRecord(i) == cleaned_lines[i].labels[1].task

\* the tasks of the ancestors of the cleaned chain of the i-th record
AncestorTasksOfRecord(i) == TasksOf(Tail(cleaned_lines[i].labels))

\* C11: in the sorted output the records of one task other than the task
\* outside any event loop are contiguous: between two records of the task
\* there is no record of another task, unless that record has the task among
\* the ancestors of its chain.
C11_TaskContiguous ==
    pc = "sorted" =>
        \A p, r, q \in DOMAIN OutputOrder :
            LET a == OutputOrder[p]
                c == OutputOrder[r]
                b == OutputOrder[q]
            IN  (/\ p < r /\ r < q
                 /\ TaskOfRecord(a) = TaskOfRecord(b)
                 /\ TaskOfRecord(a) # NO_EVENT_LOOP
                 /\ TaskOfRecord(c) # TaskOfRecord(a))
                => TaskOfRecord(a) \in AncestorTasksOfRecord(c)

\* the cleaned chain of the i-th record
ChainOfRecord(i) == cleaned_lines[i].labels

\* the key depth the batch requires
RequiredDepth == 1 + max_nb_ancestors(metadata_dict)

\* the pair (first, own) of a Label Set, from the cleaned chains of the batch
LeafOfLink(link) ==
    LET own == _timestamp_key(link.timestamp).val
    IN  Leaf(IF link.task = NO_EVENT_LOOP THEN own ELSE FirstOfTask(link.task), own)

\* the pairs of a chain from the outermost ancestor down to the own Label Set
LeavesOf(chain) == [j \in 1..Len(chain) |-> LeafOfLink(chain[Len(chain) + 1 - j])]

\* the pairs of the i-th record followed by its filler pairs
PaddedLeavesOfRecord(i) ==
    LET leaves == LeavesOf(ChainOfRecord(i))
    IN  leaves \o [j \in 1..(RequiredDepth - Len(leaves)) |-> Leaf(0, 0)]

\* the first n pairs of the i-th record: what stands in its key where a chain
\* of n ancestors stands in the key of its children
AlignedPrefix(i, n) ==
    LET all == PaddedLeavesOfRecord(i)
    IN  SubSeq(all, 1, IF n < Len(all) THEN n ELSE Len(all))

\* the chain of the i-th record ends, outermost ancestor last, with the chain P
ContainsChain(i, P) ==
    LET chain == ChainOfRecord(i)
    IN  /\ Len(P) <= Len(chain)
        /\ SubSeq(chain, Len(chain) - Len(P) + 1, Len(chain)) = P

\* C12: the records whose cleaned chains have the same parent chain are one
\* contiguous block of the output: no record whose chain does not contain
\* that parent chain stands between two of them, provided the part of its
\* key aligned with the parent chain differs from the parent chain's.
C12_ParentBlockContiguous ==
    pc = "sorted" =>
        \A p, r, q \in DOMAIN OutputOrder :
            LET a == OutputOrder[p]
                c == OutputOrder[r]
                b == OutputOrder[q]
                P == Tail(ChainOfRecord(a))
            IN  (/\ p < r /\ r < q
                 /\ P # <<>>
                 /\ Tail(ChainOfRecord(b)) = P
                 /\ ~ContainsChain(c, P))
                => AlignedPrefix(c, Len(P)) = LeavesOf(P)

\* C12 witness: of three records the first and the third have the same
\* parent chain, the second neither has it nor has its pairs: the output
\* holds the first and the third next to each other, before the second
C12_Witness ==
    /\ pc = "sorted"
    /\ Len(cleaned_lines) = 3
    /\ Tail(ChainOfRecord(1)) # <<>>
    /\ Tail(ChainOfRecord(1)) = Tail(ChainOfRecord(3))
    /\ ~ContainsChain(2, Tail(ChainOfRecord(1)))
    /\ AlignedPrefix(2, Len(ChainOfRecord(1)) - 1) # LeavesOf(Tail(ChainOfRecord(1)))
    /\ OutputOrder = <<1, 3, 2>>

\* the own timestamp of the i-th record, parsed
OwnTimestampOfRecord(i) == _timestamp_key(ChainOfRecord(i)[1].timestamp).val

\* C13, as claimed: two records of the same task and the same chain depth
\* are output in ascending order of their own timestamps, whatever the
\* timestamps of their parents.
C13_OwnTimestampOrder ==
    pc = "sorted" =>
        \A p, q \in DOMAIN OutputOrder :
            LET a == OutputOrder[p]
                b == OutputOrder[q]
            IN  (/\ p < q
                 /\ TaskOfRecord(a) = TaskOfRecord(b)
                 /\ Len(ChainOfRecord(a)) = Len(ChainOfRecord(b)))
                => OwnTimestampOfRecord(a) <= OwnTimestampOfRecord(b)

\* C13, amended: two records of the same task and the same chain depth whose
\* ancestors have, level by level, the same pairs (first, own) are output in
\* ascending order of their own timestamps.
C13_OwnTimestampOrderUnderEqualParents ==
    pc = "sorted" =>
        \A p, q \in DOMAIN OutputOrder :
            LET a == OutputOrder[p]
                b == OutputOrder[q]
            IN  (/\ p < q
                 /\ TaskOfRecord(a) = TaskOfRecord(b)
                 /\ Len(ChainOfRecord(a)) = Len(ChainOfRecord(b))
                 /\ LeavesOf(Tail(ChainOfRecord(a))) = LeavesOf(Tail(ChainOfRecord(b))))
                => OwnTimestampOfRecord(a) <= OwnTimestampOfRecord(b)

\* C13 witness: two records of one task under the same parent, logged the
\* later one first, and output the earlier one first
C13_Witness ==
    /\ pc = "sorted"
    /\ Len(cleaned_lines) = 2
    /\ TaskOfRecord(1) = TaskOfRecord(2)
    /\ Len(ChainOfRecord(1)) = 2
    /\ Tail(ChainOfRecord(1)) = Tail(ChainOfRecord(2))
    /\ OwnTimestampOfRecord(1) > OwnTimestampOfRecord(2)
    /\ OutputOrder = <<2, 1>>

\* ------------------------------------------------ claims: the depth of keys
\* the nesting depth of a key: 1 for a pair of floats
RECURSIVE SpineDepth(_)
SpineDepth(key) == IF key.kind = "leaf" THEN 1 ELSE 1 + SpineDepth(key.fst)

\* the depth d of the unpadded key of the i-th record
UnpaddedDepthOfRecord(i) == SpineDepth(_hierarchical_key(ChainOfRecord(i), metadata_dict))

\* the number of filler pairs the key of the i-th record is wrapped in
NbWrapsOfRecord(i) == SpineDepth(KeyOfLine(i)) - UnpaddedDepthOfRecord(i)

\* C14, as claimed: the unpadded key depth d of a record is determined by its
\* task alone: two records of the same task have the same d, d is
\* 1 + |ancestors(task)|, and the records of a task get the same number of
\* padding wraps.
C14_DepthByTask ==
    pc = "constructed" =>
        \A i, j \in DOMAIN cleaned_lines :
            TaskOfRecord(i) = TaskOfRecord(j) =>
                /\ UnpaddedDepthOfRecord(i) = UnpaddedDepthOfRecord(j)
                /\ UnpaddedDepthOfRecord(i)
                       = 1 + Cardinality(metadata_dict[TaskOfRecord(i)].task_ancestors)
                /\ NbWrapsOfRecord(i) = NbWrapsOfRecord(j)

\* C14, amended: the unpadded key depth d of a record is the number of Label
\* Sets of its cleaned chain, and the record gets 1 + M - d padding wraps
\* when that is positive, none otherwise: two records of the same task whose
\* cleaned chains are equally long have the same d and the same number of
\* padding wraps.
C14_DepthByChain ==
    pc = "constructed" =>
        /\ \A i \in DOMAIN cleaned_lines :
               LET d == Len(ChainOfRecord(i))
               IN  /\ UnpaddedDepthOfRecord(i) = d
                   /\ NbWrapsOfRecord(i) = IF RequiredDepth > d THEN RequiredDepth - d ELSE 0
        /\ \A i, j \in DOMAIN cleaned_lines :
               (/\ TaskOfRecord(i) = TaskOfRecord(j)
                /\ Len(ChainOfRecord(i)) = Len(ChainOfRecord(j)))
               => /\ UnpaddedDepthOfRecord(i) = UnpaddedDepthOfRecord(j)
                  /\ NbWrapsOfRecord(i) = NbWrapsOfRecord(j)

\* C14 witness: two records of one task, one without a parent and wrapped
\* once, the other with a parent and not wrapped
C14_Witness ==
    /\ pc = "constructed"
    /\ \E i, j \in DOMAIN cleaned_lines :
           /\ TaskOfRecord(i) = TaskOfRecord(j)
           /\ Len(ChainOfRecord(i)) = 1
           /\ Len(ChainOfRecord(j)) = 2
           /\ NbWrapsOfRecord(i) = 1
           /\ NbWrapsOfRecord(j) = 0

\* ---------------------------------------------------- claims: the rendering
\* the rendered prefix of a Label Set: as many tabs as its task has
\* ancestors, then "[timestamp task - thread@source]"
TextOfLink(link) ==
    [tabs      |-> Cardinality(metadata_dict[link.task].task_ancestors),
     timestamp |-> link.timestamp,
     task      |-> link.task,
     thread    |-> link.thread,
     source    |-> link.source]

\* the rendered ancestors of the i-th record, outermost first
AncestorTextsOfRecord(i) ==
    LET chain == ChainOfRecord(i)
    IN  [j \in 1..(Len(chain) - 1) |-> TextOfLink(chain[Len(chain) + 1 - j])]

\* the positions of the own lines and of the header lines of the output
OwnLinePositions == {k \in DOMAIN sorted_lines : sorted_lines[k].kind = "line"}

HeaderPositions == {k \in DOMAIN sorted_lines : sorted_lines[k].kind = "header"}

\* the record the own line at position k belongs to
RecordOfLine(k) ==
    CHOOSE i \in DOMAIN cleaned_lines : cleaned_lines[i].message[1] = sorted_lines[k].text

\* the first position of the run of header lines that ends right before
\* position k (k itself when no header line stands right before k)
RunStart(k) ==
    LET stops == {m \in 1..(k - 1) : sorted_lines[m].kind # "header"}
    IN  IF stops = {} THEN 1 ELSE 1 + Max(stops)

\* the texts of the header lines before position s
HeaderTextsBefore(s) == {sorted_lines[m].prefix : m \in {h \in HeaderPositions : h < s}}

\* the first place of a text in a sequence of texts
FirstIndex(txts, txt) ==
    CHOOSE j \in DOMAIN txts : txts[j] = txt /\ \A m \in 1..(j - 1) : txts[m] # txt

\* first part of C15: each header text is in the output once, every header
\* line stands in the run of header lines right before the own line of a
\* record, and that run holds, outermost first, exactly the ancestors of the
\* record that no earlier header line shows
C15_HeadersOnceAndInPlace ==
    pc = "sorted" =>
        /\ \A h1, h2 \in HeaderPositions :
               h1 # h2 => sorted_lines[h1].prefix # sorted_lines[h2].prefix
        /\ \A h \in HeaderPositions :
               \E k \in OwnLinePositions : RunStart(k) <= h /\ h < k
        /\ \A k \in OwnLinePositions :
               LET wanted == AncestorTextsOfRecord(RecordOfLine(k))
                   s      == RunStart(k)
                   run    == [m \in 1..(k - s) |-> sorted_lines[s + m - 1].prefix]
               IN  /\ \A j \in DOMAIN wanted :
                          \/ wanted[j] \in HeaderTextsBefore(s)
                          \/ \E m \in DOMAIN run : run[m] = wanted[j]
                   /\ \A m \in DOMAIN run :
                          /\ \E j \in DOMAIN wanted : wanted[j] = run[m]
                          /\ run[m] \notin HeaderTextsBefore(s)
                   /\ \A m, n \in DOMAIN run :
                          m < n => FirstIndex(wanted, run[m]) < FirstIndex(wanted, run[n])

\* the output without the continuation lines of the messages
WithoutContinuations == SelectSeq(sorted_lines, LAMBDA line : line.kind # "continuation")

\* the batch is two records, each with one parent; the parents have the same
\* task and the parent of record early has the smaller timestamp
TwoParentsOfOneTask(early, late) ==
    /\ Len(cleaned_lines) = 2
    /\ {early, late} = {1, 2}
    /\ Len(ChainOfRecord(early)) = 2
    /\ Len(ChainOfRecord(late)) = 2
    /\ ChainOfRecord(early)[2].task = ChainOfRecord(late)[2].task
    /\ _timestamp_key(ChainOfRecord(early)[2].timestamp).val
           < _timestamp_key(ChainOfRecord(late)[2].timestamp).val

\* second part of C15: header of the earlier parent, its child, header of
\* the later parent, its child
C15_TwoParentsTwoHeaders ==
    pc = "sorted" =>
        \A early, late \in {1, 2} :
            TwoParentsOfOneTask(early, late) =>
                LET out == WithoutContinuations
                IN  /\ Len(out) = 4
                    /\ out[1].kind = "header"
                    /\ out[1].prefix = TextOfLink(ChainOfRecord(early)[2])
                    /\ out[2].kind = "line"
                    /\ out[2].text = cleaned_lines[early].message[1]
                    /\ out[3].kind = "header"
                    /\ out[3].prefix = TextOfLink(ChainOfRecord(late)[2])
                    /\ out[4].kind = "line"
                    /\ out[4].text = cleaned_lines[late].message[1]

\* C15: an ancestor header line is emitted exactly when its text has not
\* been emitted earlier in the batch, right before the lines of the record
\* that needs it and outermost ancestor first, so that each distinct header
\* text is in the output once; and two parents of one task with different
\* timestamps each get their own header followed by their own child.
C15_Headers == C15_HeadersOnceAndInPlace /\ C15_TwoParentsTwoHeaders

\* C15 witness: the child of the later parent was logged first; the output
\* has the header of the earlier parent first
C15_Witness ==
    /\ pc = "sorted"
    /\ TwoParentsOfOneTask(2, 1)
    /\ Len(WithoutContinuations) = 4
    /\ WithoutContinuations[1].prefix = TextOfLink(ChainOfRecord(2)[2])
    /\ WithoutContinuations[3].prefix = TextOfLink(ChainOfRecord(1)[2])

\* the distinct rendered texts of the ancestors of the cleaned chains
DistinctHeaderTexts ==
    UNION {SeqToSet(AncestorTextsOfRecord(i)) : i \in DOMAIN cleaned_lines}

\* the number of lines of the messages of the first n records
RECURSIVE NbMessageLines(_)
NbMessageLines(n) ==
    IF n = 0 THEN 0 ELSE Len(cleaned_lines[n].message) + NbMessageLines(n - 1)

\* C16: the number of output lines of sort() is the number of distinct
\* ancestor header texts of the cleaned chains plus the number of the lines
\* of the messages of all records, and the own first line of each record is
\* in the output exactly once.
C16_LineCount ==
    pc = "sorted" =>
        /\ Len(sorted_lines)
               = Cardinality(DistinctHeaderTexts) + NbMessageLines(Len(cleaned_lines))
        /\ \A i \in DOMAIN cleaned_lines :
               Cardinality({k \in OwnLinePositions :
                                /\ sorted_lines[k].text = cleaned_lines[i].message[1]
                                /\ sorted_lines[k].prefix = TextOfLink(ChainOfRecord(i)[1])}) = 1

\* C16 witness: two records under the same parent Label Set, the second with
\* a message of two lines: one header and three message lines
C16_Witness ==
    /\ pc = "sorted"
    /\ Len(cleaned_lines) = 2
    /\ Len(ChainOfRecord(1)) = 2
    /\ Tail(ChainOfRecord(1)) = Tail(ChainOfRecord(2))
    /\ Len(cleaned_lines[2].message) = 2
    /\ Cardinality(DistinctHeaderTexts) = 1
    /\ Len(sorted_lines) = 4

\* C17: a record whose task is the task outside any event loop and which has
\* no parent is rendered with zero tabs of indentation, whatever other
\* records the batch holds.
C17_SentinelNotIndented ==
    pc = "sorted" =>
        \A k \in OwnLinePositions :
            LET i == RecordOfLine(k)
            IN  (/\ input_lines[i].labels[1].task = NO_EVENT_LOOP
                 /\ Len(input_lines[i].labels) = 1)
                => sorted_lines[k].prefix.tabs = 0

\* ------------------------------------------------- claims: sort() as a whole
\* what a sorter built now from the batch of the buffer would return
SortOfSecondSorter ==
    LET cleaned  == _clean_input_lines(buffer)
        metadata == _extract_task_metadata(cleaned)
    IN  IF Raised(metadata) THEN metadata ELSE sort(cleaned, metadata.val)

C19_EmptyBatch ==
    buffer = <<>> =>
        /\ error = "none"
        /\ Constructed => (input_lines = <<>> /\ cleaned_lines = <<>> /\ metadata_dict = <<>>)
        /\ pc \in {"sorted", "printed"} => sorted_lines = <<>>

\* C19 witness: sort() has returned for the sorter of an empty batch
C19_Witness ==
    /\ pc = "sorted"
    /\ buffer = <<>>
    /\ input_lines = <<>>
    /\ sorted_lines = <<>>
    /\ error = "none"

\* ------------------------------------------------------ claims: the errors
\* the step is one that processes the batch of the buffer from its start: a
\* step taken when no flush is under way that buffers no line
StartsProcessing == pc = "idle" /\ Len(buffer') # Len(buffer) + 1

\* the step raised and produced no line
FailedWithoutOutput ==
    /\ error' # "none"
    /\ pc' = "idle"
    /\ sorted_lines' = <<>>
    /\ stdout' = <<>>

C21_MalformedDetectedInSort ==
    [][/\ (StartsProcessing /\ ~AllWellFormed(_clean_input_lines(buffer)))
              => (pc' = "constructed" /\ error' = "none")
       /\ (pc = "constructed" /\ ~AllWellFormed(cleaned_lines))
              => (error' = "ValueError" /\ sorted_lines' = <<>>)]_vars

\* two records of the batch have padded keys of different nesting depth
KeyDepthsDiffer ==
    \E i, j \in DOMAIN cleaned_lines : SpineDepth(KeyOfLine(i)) # SpineDepth(KeyOfLine(j))

\* C22: whenever two records of a batch end up with padded keys of different
\* nesting depth, sort() raises an error and returns no lines.
C22_DepthMismatchRaises ==
    [][(pc = "constructed" /\ KeyDepthsDiffer) => FailedWithoutOutput]_vars

\* C22 witness: sort() has raised for a batch of two records, one with a
\* chain of four Label Sets in which two tasks alternate, one without parent
C22_Witness ==
    /\ pc = "idle"
    /\ error = "ValueError"
    /\ Len(buffer) = 2
    /\ Len(_clean_input_lines(buffer)[1].labels) = 4
    /\ Len(buffer[2].labels) = 1
    /\ sorted_lines = <<>>
    /\ stdout = <<>>

\* ------------------------------------------------------- claims: the flush
\* the step buffers a line
BuffersALine == Len(buffer') = Len(buffer) + 1 /\ SubSeq(buffer', 1, Len(buffer)) = buffer

\* C23: a flush is all-or-nothing and leaves no state for the next batch:
\* a step of flush() that fails emits no line and returns no line; a flush
\* that gets through sort() prints every sorted line of the whole batch, then
\* empties the buffer and drops its sorter; the buffer loses records in no
\* other step.
C23_FlushAllOrNothing ==
    [][/\ (~BuffersALine /\ error' # "none")
              => (stdout' = <<>> /\ sorted_lines' = <<>> /\ pc' = "idle")
       /\ pc = "sorted"
              => /\ Return(sorted_lines) = SortOfSecondSorter
                 /\ stdout' = <<[kind |-> "blank"]>> \o sorted_lines
                 /\ pc' = "printed"
       /\ pc = "printed"
              => /\ buffer' = <<>>
                 /\ input_lines' = <<>> /\ cleaned_lines' = <<>> /\ metadata_dict' = <<>>
                 /\ sorted_lines' = <<>>
                 /\ pc' = "idle"
       /\ pc # "printed" => (buffer' = buffer \/ BuffersALine)]_vars

\* C23 witness: a flush has printed the lines of a batch of three records,
\* headers and a continuation line included, and is about to empty the buffer
C23_Witness ==
    /\ pc = "printed"
    /\ Len(buffer) = 3
    /\ stdout = <<[kind |-> "blank"]>> \o sorted_lines
    /\ Len(sorted_lines) >= 6

\* ------------------------------------------------ claims: the task metadata
\* the Label Sets of the batch as handed to the sorter, ancestors included
InputLinks == UNION {SeqToSet(input_lines[i].labels) : i \in DOMAIN input_lines}

\* C24: timestamp_list of a task holds the timestamp of every Label Set of
\* that task of the batch as handed to the sorter, own and ancestor Label
\* Sets of the input chains before cleaning, so that the first component of
\* the leaf key of a task other than the one outside any event loop is never
\* later than a timestamp of that task in the input.
C24_TimestampListComplete ==
    pc = "constructed" =>
        \A l \in InputLinks :
            /\ l.task \in DOMAIN metadata_dict
            /\ l.timestamp \in SeqToSet(metadata_dict[l.task].timestamp_list)
            /\ l.task # NO_EVENT_LOOP =>
                   \A i \in DOMAIN cleaned_lines :
                       \A j \in DOMAIN cleaned_lines[i].labels :
                           LET chain == cleaned_lines[i].labels
                           IN  chain[j].task = l.task =>
                                   _labels_key(SubSeq(chain, j, Len(chain)), metadata_dict).fst
                                       <= _timestamp_key(l.timestamp).val

\* ------------------------------------------ claims: parents and children
\* the place of the i-th record in the output
PlaceOfRecord(i) == CHOOSE p \in DOMAIN OutputOrder : OutputOrder[p] = i

\* the outermost ancestor of the cleaned chain of the i-th record
OutermostOfRecord(i) == ChainOfRecord(i)[Len(ChainOfRecord(i))]

\* C25: padding aligns keys at the outermost ancestor: if r is a parentless
\* record of task P with own timestamp t and c a record whose cleaned chain
\* has as outermost ancestor a Label Set of task P with timestamp t2, then in
\* the output of sort() r precedes c if t < t2, c precedes r if t2 < t, and
\* if t = t2 r precedes c unless their keys are equal.
C25_ParentLinesAgainstChildren ==
    pc = "sorted" =>
        \A r, c \in DOMAIN cleaned_lines :
            (/\ Len(ChainOfRecord(r)) = 1
             /\ Len(ChainOfRecord(c)) >= 2
             /\ OutermostOfRecord(c).task = TaskOfRecord(r))
            => LET t  == OwnTimestampOfRecord(r)
                   t2 == _timestamp_key(OutermostOfRecord(c).timestamp).val
               IN  /\ t < t2 => PlaceOfRecord(r) < PlaceOfRecord(c)
                   /\ t2 < t => PlaceOfRecord(c) < PlaceOfRecord(r)
                   /\ (t = t2 /\ PyCmp(KeyOfLine(r), KeyOfLine(c)) # "eq")
                          => PlaceOfRecord(r) < PlaceOfRecord(c)

\* C25 witness: a parentless record of a task at 11.344 sec, logged first,
\* and the child of a Label Set of that task at 2.550 sec: the child is
\* output first
C25_Witness ==
    /\ pc = "sorted"
    /\ Len(cleaned_lines) = 2
    /\ Len(ChainOfRecord(1)) = 1
    /\ Len(ChainOfRecord(2)) = 2
    /\ OutermostOfRecord(2).task = TaskOfRecord(1)
    /\ OwnTimestampOfRecord(1) = 11344
    /\ OutermostOfRecord(2).timestamp = TS_2_550
    /\ OutputOrder = <<2, 1>>

\* ------------------------------------------------ claims: order of the batch
\* the orders in which the records of a batch of n records can be logged
PermutationsOf(n) == {p \in [1..n -> 1..n] : \A i, j \in 1..n : p[i] = p[j] => i = j}

\* the batch with its records in the order p
Permuted(lines, p) == [i \in 1..Len(lines) |-> lines[p[i]]]

\* what a sorter built from the batch returns (or the exception)
SortOfBatch(lines) ==
    LET cleaned  == _clean_input_lines(lines)
        metadata == _extract_task_metadata(cleaned)
    IN  IF Raised(metadata) THEN metadata ELSE sort(cleaned, metadata.val)

\* the keys of the records of the batch are pairwise distinct
KeysPairwiseDistinct(lines) ==
    LET cleaned  == _clean_input_lines(lines)
        metadata == _extract_task_metadata(cleaned)
    IN  /\ ~Raised(metadata)
        /\ \A i, j \in DOMAIN cleaned :
               i # j => PyCmp(_log_line_key(cleaned[i], metadata.val),
                              _log_line_key(cleaned[j], metadata.val)) \in {"lt", "gt"}

\* C26: the output does not depend on the order of the records: a batch
\* and any permutation of it in which the keys are pairwise distinct give the
\* same output lines, in order and indentation.
C26_OrderIndependent ==
    (pc = "sorted" /\ KeysPairwiseDistinct(input_lines)) =>
        \A p \in PermutationsOf(Len(input_lines)) :
            KeysPairwiseDistinct(Permuted(input_lines, p))
                => SortOfBatch(Permuted(input_lines, p)) = Return(sorted_lines)

\* --------------------------------------------- claims: nesting of the output
\* the position of the own line of the i-th record in the output
OwnLinePositionOf(i) == CHOOSE k \in OwnLinePositions : RecordOfLine(k) = i

\* the header lines before position k that have fewer tabs than the line at k
ShallowerHeadersBefore(k) ==
    {h \in HeaderPositions : h < k /\ sorted_lines[h].prefix.tabs < sorted_lines[k].prefix.tabs}

\* C27: for every record with a parent, the nearest header line before the
\* record's own line that has strictly fewer tabs than the own line is the
\* header of the nearest parent Label Set of the record.
C27_NearestShallowerHeaderIsParent ==
    pc = "sorted" =>
        \A i \in DOMAIN cleaned_lines :
            Len(ChainOfRecord(i)) >= 2 =>
                LET k == OwnLinePositionOf(i)
                IN  /\ ShallowerHeadersBefore(k) # {}
                    /\ sorted_lines[Max(ShallowerHeadersBefore(k))].prefix
                           = TextOfLink(ChainOfRecord(i)[2])

\* C28: along the cleaned chain of a record, from the header of the
\* outermost ancestor to the record's own line, the number of tabs strictly
\* increases.
C28_TabsIncreaseAlongChain ==
    pc = "sorted" =>
        \A i \in DOMAIN cleaned_lines :
            \A j \in 1..(Len(ChainOfRecord(i)) - 1) :
                TextOfLink(ChainOfRecord(i)[j + 1]).tabs < TextOfLink(ChainOfRecord(i)[j]).tabs

\* ------------------------------------------------- claims: the command parser
\* the k-th piece of the quote-delimited group that starts with the first
\* token: the first token without its opening quote, then the tokens as
\* they are
PieceOfGroup(tokens, k) == IF k = 1 THEN Tail(tokens[1]) ELSE tokens[k]

\* the number of tokens of the quote-delimited group that starts with the
\* first token: up to the first piece that ends with the opening quote; 0
\* when no piece does
ClosingIndex(tokens) ==
    LET closing == {k \in DOMAIN tokens :
                       /\ PieceOfGroup(tokens, k) # <<>>
                       /\ PieceOfGroup(tokens, k)[Len(PieceOfGroup(tokens, k))] = tokens[1][1]}
    IN  IF closing = {} THEN 0 ELSE CHOOSE k \in closing : \A m \in closing : k <= m

\* the pieces 2..k of a group joined to the text so far with single spaces,
\* blank tokens left out and the closing quote removed
RECURSIVE GroupText(_, _, _, _)
GroupText(tokens, so_far, k, last) ==
    IF k > last THEN so_far
    ELSE IF k = last
    THEN so_far \o <<SPACE>> \o SubSeq(tokens[k], 1, Len(tokens[k]) - 1)
    ELSE IF Strip(tokens[k]) = <<>> THEN GroupText(tokens, so_far, k + 1, last)
    ELSE GroupText(tokens, so_far \o <<SPACE>> \o tokens[k], k + 1, last)

\* the one argument of the group of `last` tokens that starts with the first
ArgumentOfGroup(tokens, last) ==
    IF last = 1 THEN SubSeq(tokens[1], 2, Len(tokens[1]) - 1)
    ELSE GroupText(tokens, Tail(tokens[1]), 2, last)

\* every quote-delimited group of the tokens is closed
RECURSIVE Balanced(_)
Balanced(tokens) ==
    IF tokens = <<>> THEN TRUE
    ELSE IF Strip(Head(tokens)) = <<>> \/ Head(tokens)[1] \notin SUBSTRING_DELIMETERS
    THEN Balanced(Tail(tokens))
    ELSE /\ ClosingIndex(tokens) > 0
         /\ Balanced(SubSeq(tokens, ClosingIndex(tokens) + 1, Len(tokens)))

\* one argument per unquoted non-blank token and one per quote-delimited
\* group, in order
RECURSIVE OneArgumentPerTokenOrGroup(_)
OneArgumentPerTokenOrGroup(tokens) ==
    IF tokens = <<>> THEN <<>>
    ELSE IF Strip(Head(tokens)) = <<>> THEN OneArgumentPerTokenOrGroup(Tail(tokens))
    ELSE IF Head(tokens)[1] \notin SUBSTRING_DELIMETERS
    THEN <<Head(tokens)>> \o OneArgumentPerTokenOrGroup(Tail(tokens))
    ELSE IF ClosingIndex(tokens) = 0 THEN <<>>
    ELSE <<ArgumentOfGroup(tokens, ClosingIndex(tokens))>>
         \o OneArgumentPerTokenOrGroup(SubSeq(tokens, ClosingIndex(tokens) + 1, Len(tokens)))

\* C29: get_argument_list ends, and for a command whose quotes are balanced
\* it returns, in order, one argument per unquoted non-blank token and one
\* per quote-delimited group of tokens, a group of a single token included;
\* the tokens after a closed group are usual arguments again.
C29_OneArgumentPerTokenOrGroup ==
    (outcome # None /\ Balanced(token_list))
        => outcome = Return(OneArgumentPerTokenOrGroup(token_list))

\* ------------------------------------------------------ claims: UsheringTo
\* the results of the finished tasks, in order of completion
ResultsInOrderOfCompletion == [i \in DOMAIN done |-> ResultOf(done[i])]

\* first part of C30: no step taken while the body of the block runs
\* changes result_l
C30_NothingAppendedInBody == [][usher_pc = "body" => result_l' = result_l]_vars

\* second part of C30: when the block has exited, every coroutine added is
\* in the queue of finished tasks once, none has raised, and result_l is
\* the caller's list followed by their results in order of completion
C30_JoinedAtExit ==
    usher_pc = "exited" =>
        /\ \A c \in todo :
               /\ Cardinality({i \in DOMAIN done : done[i] = c}) = 1
               /\ coro_state[c] = "returned"
        /\ Len(done) = Cardinality(todo)
        /\ \E initial \in InitialResults : result_l = initial \o ResultsInOrderOfCompletion

\* third part of C30: a `+=` of something that is not a coroutine raises
\* ValueError and leaves to_do as it was
C30_NonCoroutineRejected ==
    [][\A coro \in NonCoroutines :
           IAdd(coro) => (usher_error' = "ValueError" /\ to_do' = to_do)]_vars

\* C30: fork-join of UsheringTo: nothing is appended to result_l while the
\* body of the block runs; when the block exits and no ushered coroutine
\* raises, result_l has been extended by one entry per coroutine added with
\* `+=`, each result once, in order of completion, whatever the interleaving
\* of the coroutines; a `+=` of a non-coroutine raises ValueError and leaves
\* the pending list unchanged.
C30_ForkJoin ==
    /\ C30_NothingAppendedInBody
    /\ []C30_JoinedAtExit
    /\ C30_NonCoroutineRejected

\* C30 witness: the block has exited after three coroutines were ushered and
\* a non-coroutine was rejected, and the coroutines finished in another
\* order than they were added
C30_Witness ==
    /\ usher_pc = "exited"
    /\ usher_error = "ValueError"
    /\ to_do = <<"A", "B", "C">>
    /\ done = <<"B", "C", "A">>
    /\ result_l = <<"earlier", "B", "C", "A">>

====
